---- MODULE Spec2Model ----
(***************************************************************************)
(* A model of pkt_kg/owlnets.py (class OwlNets): the OWL-NETS pipeline      *)
(* that decodes OWL-encoded classes of an RDF graph into plain triples.    *)
(*                                                                         *)
(* An RDF term is a string.  A triple is <<s, p, o>>.  The networkx        *)
(* multidigraph holds edges <<u, v, key>> (add_edge(s, o, key=p)).         *)
(* A python dict of one anonymous node (an "axiom frame") is a set of      *)
(* <<key, value>> pairs; None and the empty dict, both falsy, are {}.      *)
(*                                                                         *)
(* Where the source cannot run as written, the model reads it as follows.  *)
(* Line 563 calls test_converts_rdflib_to_networkx_multidigraph, which the *)
(* class does not define: the call is taken to be the method of lines      *)
(* 75-87, the only one that fills nx_mdg.  removes_non_obo_namespace_triples *)
(* reads names it never binds (lines 509-517, 524): the model keeps its    *)
(* sweep of lines 521-522, on the owl_nets_graph of run_owl_nets.          *)
(* purifies_graph_build has no body after its else (lines 535-542): it is  *)
(* taken to change nothing.                                                *)
(***************************************************************************)
EXTENDS Integers, Sequences, FiniteSets, TLC

(***************************************************************************)
(* Bounds of the input families.                                           *)
(***************************************************************************)
MaxListLen == 2          \* members of a unionOf / intersectionOf list
MaxEdges == 3            \* plain edges added to the instance-based inputs
NumExpanderNodes == 3    \* anonymous nodes of the Axiom Expander's inputs
MaxExpanderEdges == 4    \* edges between those anonymous nodes

(***************************************************************************)
(* Vocabulary: the rdflib.namespace constants the code names.              *)
(***************************************************************************)
RDF_type == "rdf#type"
RDF_first == "rdf#first"
RDF_rest == "rdf#rest"
RDF_nil == "rdf#nil"
RDFS_subClassOf == "rdfs#subClassOf"
OWL_Class == "owl#Class"
OWL_NamedIndividual == "owl#NamedIndividual"
OWL_ObjectProperty == "owl#ObjectProperty"
OWL_AnnotationProperty == "owl#AnnotationProperty"
OWL_disjointWith == "owl#disjointWith"
obo_RO_0000086 == "obo/RO_0000086"

(* Terms of the input ontologies that the code does not name. *)
OWL_Restriction == "owl#Restriction"
OWL_DatatypeProperty == "owl#DatatypeProperty"
OWL_onProperty == "owl#onProperty"
OWL_someValuesFrom == "owl#someValuesFrom"
OWL_unionOf == "owl#unionOf"
OWL_intersectionOf == "owl#intersectionOf"
OWL_complementOf == "owl#complementOf"
OWL_equivalentClass == "owl#equivalentClass"
OWL_minCardinality == "owl#minCardinality"
OWL_oneOf == "owl#oneOf"
OWL_annotatedProperty == "owl#annotatedProperty"
OWL_annotatedTarget == "owl#annotatedTarget"

(* the anonymous nodes of the inputs: BNode(i) for i in 1..PoolSize *)
BNode(i) == "_:b" \o ToString(i)
PoolSize == 3 * (MaxListLen + 2) + 1 + NumExpanderNodes
AllBNodes == {BNode(i) : i \in 1..PoolSize}
AllLiterals == {"\"1\""}

(* isinstance(x, BNode) / URIRef / Literal *)
IsBNode(x) == x \in AllBNodes
IsLiteral(x) == x \in AllLiterals
IsURIRef(x) == x \notin AllBNodes /\ x \notin AllLiterals /\ x # "None"

(* python's None where it can stand for a term (returns_object_property) *)
None == "None"

(***************************************************************************)
(* Substring tests.  The code tests terms with `'marker' in str(term)`;    *)
(* Has(marker, x) is that test on the terms of the model, read off their   *)
(* text.                                                                   *)
(***************************************************************************)
HashTerms ==
    {RDF_type, RDF_first, RDF_rest, RDF_nil, RDFS_subClassOf, OWL_Class,
     OWL_NamedIndividual, OWL_ObjectProperty, OWL_AnnotationProperty, OWL_disjointWith,
     OWL_Restriction, OWL_DatatypeProperty, OWL_onProperty, OWL_someValuesFrom,
     OWL_unionOf, OWL_intersectionOf, OWL_complementOf, OWL_equivalentClass,
     OWL_minCardinality, OWL_oneOf, OWL_annotatedProperty, OWL_annotatedTarget,
     "obo/cl#lacks_part", "obo/go#subset"}
OwlHashTerms ==
    {OWL_Class, OWL_NamedIndividual, OWL_ObjectProperty, OWL_AnnotationProperty,
     OWL_disjointWith, OWL_Restriction, OWL_DatatypeProperty, OWL_onProperty,
     OWL_someValuesFrom, OWL_unionOf, OWL_intersectionOf, OWL_complementOf,
     OWL_equivalentClass, OWL_minCardinality, OWL_oneOf, OWL_annotatedProperty,
     OWL_annotatedTarget}
OboTerms ==
    {"obo/GO_1", "obo/GO_2", "obo/GO_3", "obo/PATO_1", "obo/PATO_2", "obo/RO_1",
     "obo/RO_2", "obo/RO_3", "obo/RO_4", "obo/IAO_1", obo_RO_0000086,
     "obo/cl#lacks_part", "obo/go#subset"}
PatoTerms == {"obo/PATO_1", "obo/PATO_2"}
PktTerms == {"pkt/i1", "pkt/i2", "pkt/i3"}

Has(marker, x) ==
    CASE marker = "#" -> x \in HashTerms
      [] marker = "owl#" -> x \in OwlHashTerms
      [] marker = "obo" -> x \in OboTerms
      [] marker = "PATO" -> x \in PatoTerms
      [] marker = "pkt" -> x \in PktTerms
      [] marker = "lacks_part" -> x \in {"obo/cl#lacks_part", "lacks_part"}
      [] marker = "cardinality" -> x = OWL_minCardinality   \* after .lower()
      [] marker = "Restriction" -> x = OWL_Restriction
      [] OTHER -> x = marker

(* str(x): the lexical form of a term (a BNode prints its bare id, a Literal
   its value) *)
Str(x) ==
    IF x \in AllBNodes THEN "b" \o ToString(CHOOSE i \in 1..PoolSize : BNode(i) = x)
    ELSE IF x = "\"1\"" THEN "1"
    ELSE x

StrTriple(t) == <<Str(t[1]), Str(t[2]), Str(t[3])>>

(* match[2].split('#')[-1]: the dictionary key of a predicate *)
LocalName(p) ==
    CASE p = RDF_type -> "type"
      [] p = RDF_first -> "first"
      [] p = RDF_rest -> "rest"
      [] p = RDFS_subClassOf -> "subClassOf"
      [] p = OWL_onProperty -> "onProperty"
      [] p = OWL_someValuesFrom -> "someValuesFrom"
      [] p = OWL_unionOf -> "unionOf"
      [] p = OWL_intersectionOf -> "intersectionOf"
      [] p = OWL_complementOf -> "complementOf"
      [] p = OWL_equivalentClass -> "equivalentClass"
      [] p = OWL_oneOf -> "oneOf"
      [] p = OWL_disjointWith -> "disjointWith"
      [] p = OWL_annotatedProperty -> "annotatedProperty"
      [] p = OWL_annotatedTarget -> "annotatedTarget"
      [] p = "obo/cl#lacks_part" -> "lacks_part"
      [] p = "obo/go#subset" -> "subset"
      [] OTHER -> p

(***************************************************************************)
(* The triple store (rdflib.Graph) and the adjacency index (networkx).     *)
(***************************************************************************)
(* graph.triples((s, p, o)) with None as a wildcard *)
triples(g, s, p, o) ==
    {t \in g : /\ (s = None \/ t[1] = s)
               /\ (p = None \/ t[2] = p)
               /\ (o = None \/ t[3] = o)}

(* nx_mdg.out_edges(n, keys=True): tuples (u, v, key) *)
out_edges(mdg, n) == {e \in mdg : e[1] = n}

(* gets_ontology_classes(graph), of pkt_kg.utils: the named subjects typed
   owl:Class *)
gets_ontology_classes(g) ==
    {t[1] : t \in {u \in triples(g, None, RDF_type, OWL_Class) : IsURIRef(u[1])}}

(* dict[key] = value, a later value replacing an earlier one *)
Put(d, k, v) == (k :> v) @@ d

EmptyDict == [k \in {} |-> {}]

(* lines 70-73: the ledger __init__ builds (its 'owl_nets' entries side by side
   with 'disjointWith' and 'filtered_triples') *)
EmptyLedger ==
    [decoded_classes |-> EmptyDict, complementOf |-> EmptyDict,
     cardinality |-> EmptyDict, negation |-> EmptyDict,
     misc |-> EmptyDict, disjointWith |-> EmptyDict,
     filtered_triples |-> {}]

VARIABLES
    graph,                  \* self.graph
    nx_mdg,                 \* self.nx_mdg
    class_list,             \* self.class_list (the order of list(set) is arbitrary)
    kg_construct_approach,  \* self.kg_construct_approach
    owl_nets_dict,          \* self.owl_nets_dict
    disjoint_elements,      \* removes_disjoint_with_axioms: entries of its list left to visit
    pkts,                   \* updates_class_instance_identifiers: instances left to visit
    remove_edges,           \* updates_class_instance_identifiers: remove_edges
    filtered_graph,         \* run_owl_nets: filtered_graph
    decoded_graph,          \* cleans_owl_encoded_classes: decoded_graph
    cleaned_nodes,          \* cleans_owl_encoded_classes: cleaned_nodes
    owl_nets_graph,         \* run_owl_nets: owl_nets_graph
    pc,                     \* position in run_owl_nets
    call_seen_nodes,        \* recurses_axioms: seen_nodes of the current call
    call_axioms,            \* recurses_axioms: axioms of the current call
    filtered_once,          \* the graph removes_edges_with_owl_semantics returns
    filtered_twice          \* the graph it returns when run on that graph

vars == <<graph, nx_mdg, class_list, kg_construct_approach, owl_nets_dict,
          disjoint_elements, pkts, remove_edges, filtered_graph, decoded_graph,
          cleaned_nodes, owl_nets_graph, pc, call_seen_nodes, call_axioms, filtered_once,
          filtered_twice>>

(* the variables of the specifications of single methods (SpecExpander,
   SpecFilter), which run_owl_nets leaves alone *)
method_vars == <<call_seen_nodes, call_axioms, filtered_once, filtered_twice>>

(* the variables of run_owl_nets that those specifications leave alone *)
run_vars == <<class_list, kg_construct_approach, disjoint_elements, pkts, remove_edges,
              decoded_graph, cleaned_nodes, owl_nets_graph>>

(***************************************************************************)
(* removes_disjoint_with_axioms.  disjoint_elements has one entry per      *)
(* triple whose OBJECT is owl:disjointWith (the pattern of line 98); the   *)
(* entry is the triple's subject.  The loop visits the entries in the      *)
(* store's iteration order, which is arbitrary.                            *)
(***************************************************************************)
removes_disjoint_with_axioms_begin ==
    /\ pc = "start"
    /\ disjoint_elements' = triples(graph, None, None, OWL_disjointWith)
    /\ pc' = "disjoint_loop"
    /\ UNCHANGED <<graph, nx_mdg, class_list, kg_construct_approach, owl_nets_dict,
                   pkts, remove_edges, filtered_graph, decoded_graph, cleaned_nodes,
                   owl_nets_graph>>
    /\ UNCHANGED method_vars

removes_disjoint_with_axioms_step ==
    /\ pc = "disjoint_loop"
    /\ \E e \in disjoint_elements :
         LET x == e[1]
             ts == triples(graph, x, None, None)
         IN /\ owl_nets_dict' =
                  [owl_nets_dict EXCEPT !.disjointWith =
                      Put(@, Str(x), {StrTriple(t) : t \in ts})]
            /\ graph' = graph \ ts
            /\ disjoint_elements' = disjoint_elements \ {e}
    /\ UNCHANGED <<nx_mdg, class_list, kg_construct_approach, pkts, remove_edges,
                   filtered_graph, decoded_graph, cleaned_nodes, owl_nets_graph, pc>>
    /\ UNCHANGED method_vars

(***************************************************************************)
(* converts_rdflib_to_networkx_multidigraph, called at line 563 (under the *)
(* name test_converts_rdflib_to_networkx_multidigraph) when the disjoint   *)
(* loop has ended.                                                         *)
(***************************************************************************)
converts_rdflib_to_networkx_multidigraph ==
    /\ pc = "disjoint_loop"
    /\ disjoint_elements = {}
    /\ nx_mdg' = nx_mdg \cup {<<t[1], t[3], t[2]>> : t \in graph}
    /\ pc' = IF kg_construct_approach = "instance" THEN "remap" ELSE "filter"
    /\ UNCHANGED <<graph, class_list, kg_construct_approach, owl_nets_dict,
                   disjoint_elements, pkts, remove_edges, filtered_graph, decoded_graph,
                   cleaned_nodes, owl_nets_graph>>
    /\ UNCHANGED method_vars

(***************************************************************************)
(* updates_class_instance_identifiers: lines 125-126, one pass of the loop *)
(* of lines 128-137, and line 138.                                         *)
(***************************************************************************)
updates_class_instance_identifiers_begin ==
    /\ pc = "remap"
    /\ pkts' = {t[1] : t \in {u \in triples(graph, None, RDF_type, OWL_NamedIndividual) :
                                  Has("pkt", u[1])}}
    /\ remove_edges' = {}
    /\ pc' = "remap_loop"
    /\ UNCHANGED <<graph, nx_mdg, class_list, kg_construct_approach, owl_nets_dict,
                   disjoint_elements, filtered_graph, decoded_graph, cleaned_nodes,
                   owl_nets_graph>>
    /\ UNCHANGED method_vars

(* the edges lines 133-136 add for instance `node` of class `cls` *)
RemappedEdges(inst_triples, node, cls) ==
    {<<cls, e[2], e[3]>> : e \in {t \in inst_triples : Has("obo", t[2]) /\ t[1] = node}}
    \cup
    {<<e[1], e[2], cls>> : e \in {t \in inst_triples : Has("obo", t[2]) /\ t[3] = node}}

updates_class_instance_identifiers_step ==
    /\ pc = "remap_loop"
    /\ \E node \in pkts :
         LET classes == {t[3] : t \in {u \in triples(graph, node, RDF_type, None) :
                                           Has("obo", u[3])}}
             inst_triples == triples(graph, node, None, None)
                                \cup triples(graph, None, None, node)
         IN IF classes = {}
            THEN \* [...][0] of an empty list: IndexError leaves run_owl_nets
                 /\ pc' = "IndexError"
                 /\ UNCHANGED <<graph, pkts, remove_edges>>
            ELSE \E cls \in classes :
                 /\ graph' = graph \cup RemappedEdges(inst_triples, node, cls)
                 /\ remove_edges' = remove_edges \cup inst_triples
                 /\ pkts' = pkts \ {node}
                 /\ pc' = pc
    /\ UNCHANGED <<nx_mdg, class_list, kg_construct_approach, owl_nets_dict,
                   disjoint_elements, filtered_graph, decoded_graph, cleaned_nodes,
                   owl_nets_graph>>
    /\ UNCHANGED method_vars

updates_class_instance_identifiers_end ==
    /\ pc = "remap_loop"
    /\ pkts = {}
    /\ graph' = graph \ remove_edges     \* remove_edges_from_graph
    /\ pc' = "filter"
    /\ UNCHANGED <<nx_mdg, class_list, kg_construct_approach, owl_nets_dict,
                   disjoint_elements, pkts, remove_edges, filtered_graph, decoded_graph,
                   cleaned_nodes, owl_nets_graph>>
    /\ UNCHANGED method_vars

(***************************************************************************)
(* removes_edges_with_owl_semantics.  p[0] (line 172) is the first of the  *)
(* predicate's non-annotation types in the store's iteration order, which  *)
(* is arbitrary: `first` gives, for each typed predicate, the type that    *)
(* comes first.                                                            *)
(***************************************************************************)
(* lines 166-169: the type triples that make a subject or object count *)
EntityTypes(g, n) ==
    {i \in triples(g, n, RDF_type, None) :
        (Has(OWL_Class, i[3]) \/ Has(OWL_NamedIndividual, i[3])) /\ ~Has("#", n)}

(* line 170 *)
PredicateTypes(g, n) ==
    {i \in triples(g, n, RDF_type, None) : i[3] # OWL_AnnotationProperty}

TypedPredicates(g) == {t[2] : t \in {u \in g : PredicateTypes(g, u[2]) # {}}}

FirstChoices(g) ==
    {f \in [TypedPredicates(g) -> {t[3] : t \in triples(g, None, RDF_type, None)}] :
        \A q \in TypedPredicates(g) : <<q, RDF_type, f[q]>> \in PredicateTypes(g, q)}

(* the filter without the isinstance test of line 165 *)
FilterVerdictAnyTerm(g, x, first) ==
    LET s == EntityTypes(g, x[1])
        o == EntityTypes(g, x[3])
        p == PredicateTypes(g, x[2])
    IN IF s # {} /\ o # {} /\ p # {}
       THEN IF Has(OWL_ObjectProperty, first[x[2]]) THEN "keep" ELSE "filtered"
       ELSE IF s # {} /\ o # {} /\ p = {}
       THEN IF Has(RDFS_subClassOf, x[2]) THEN "keep"
            ELSE IF Has(RDF_type, x[2]) THEN "keep"
            ELSE "filtered"
       ELSE "dropped"

(* lines 165-178 for one triple: "keep", "filtered" or "dropped" (recorded nowhere) *)
FilterVerdict(g, x, first) ==
    IF IsURIRef(x[1]) /\ IsURIRef(x[2]) /\ IsURIRef(x[3])
    THEN LET s == EntityTypes(g, x[1])
             o == EntityTypes(g, x[3])
             p == PredicateTypes(g, x[2])
         IN IF s # {} /\ o # {} /\ p # {}
            THEN IF Has(OWL_ObjectProperty, first[x[2]]) THEN "keep" ELSE "filtered"
            ELSE IF s # {} /\ o # {} /\ p = {}
            THEN IF Has(RDFS_subClassOf, x[2]) THEN "keep"
                 ELSE IF Has(RDF_type, x[2]) THEN "keep"
                 ELSE "filtered"
            ELSE "dropped"
    ELSE "filtered"

removes_edges_with_owl_semantics(g, first) ==
    [filtered_graph |-> {x \in g : FilterVerdict(g, x, first) = "keep"},
     filtered_triples |-> {StrTriple(x) : x \in {y \in g : FilterVerdict(g, y, first) = "filtered"}}]

(* line 565 *)
filters_original_graph ==
    /\ pc = "filter"
    /\ \E first \in FirstChoices(graph) :
         LET r == removes_edges_with_owl_semantics(graph, first)
         IN /\ filtered_graph' = r.filtered_graph
            /\ owl_nets_dict' =
                  [owl_nets_dict EXCEPT !.filtered_triples = @ \cup r.filtered_triples]
    /\ decoded_graph' = {}
    /\ cleaned_nodes' = {}
    /\ pc' = "decode_loop"
    /\ UNCHANGED <<graph, nx_mdg, class_list, kg_construct_approach, disjoint_elements,
                   pkts, remove_edges, owl_nets_graph>>
    /\ UNCHANGED method_vars

(***************************************************************************)
(* Axiom frames: the inner dictionaries of class_edge_dict.                *)
(***************************************************************************)
Keys(f) == {kv[1] : kv \in f}
Get(f, k) == (CHOOSE kv \in f : kv[1] = k)[2]
Merge(a, b) == b \cup {kv \in a : kv[1] \notin Keys(b)}      \* {**a, **b}

(* the orders in which a python set or an rdflib store may list its members *)
Orderings(S) ==
    {q \in [1..Cardinality(S) -> S] : {q[i] : i \in 1..Cardinality(S)} = S}
Range(q) == {q[i] : i \in 1..Len(q)}

(***************************************************************************)
(* recurses_axioms.  One call (lines 200-207) finds tracked_nodes and      *)
(* search_axioms; line 209 appends list(set(tracked_nodes)) to seen_nodes, *)
(* in an order python does not fix.                                        *)
(***************************************************************************)
(* the tracked nodes without the `element not in seen_nodes` test of line 205 *)
TrackedNodesUnchecked(seen_nodes, axioms) ==
    {element \in UNION {{axiom[1], axiom[2], axiom[3]} : axiom \in axioms} :
        IsBNode(element)}

TrackedNodes(seen_nodes, axioms) ==
    {element \in UNION {{axiom[1], axiom[2], axiom[3]} : axiom \in axioms} :
        IsBNode(element) /\ element \notin Range(seen_nodes)}

SearchAxioms(mdg, tracked_nodes) ==
    UNION {out_edges(mdg, element) : element \in tracked_nodes}

RECURSIVE recurses_axioms(_, _, _)
recurses_axioms(mdg, seen_nodes, axioms) ==
    LET tracked_nodes == TrackedNodes(seen_nodes, axioms)
    IN IF tracked_nodes # {}
       THEN recurses_axioms(mdg,
                            seen_nodes \o (CHOOSE q \in Orderings(tracked_nodes) : TRUE),
                            SearchAxioms(mdg, tracked_nodes))
       ELSE seen_nodes

(***************************************************************************)
(* creates_edge_dictionary.  A cardinality marker '{}: {}'.format(node,    *)
(* match[0]) is the pair of the two printed terms.  The input families     *)
(* give an anonymous node at most one value per key, so that the order of  *)
(* `matches` does not decide a frame.                                      *)
(***************************************************************************)
creates_edge_dictionary(mdg, node) ==
    LET out == out_edges(mdg, node)
        anon == {x \in UNION {{e[1], e[2], e[3]} : e \in out} : IsBNode(x)}
        matches == UNION {SearchAxioms(mdg, Range(recurses_axioms(mdg, <<>>, out_edges(mdg, axiom)))) :
                             axiom \in anon}
        plain == {match \in matches : ~Has("cardinality", match[3])}
    IN [class_edge_dict |->
            [b \in {match[1] : match \in plain} |->
                {<<LocalName(match[3]), match[2]>> : match \in {m \in plain : m[1] = b}}],
        cardinality |->
            {<<Str(node), Str(match[1])>> : match \in matches \ plain}]

(* BNode(id): the anonymous node an id printed by str() names *)
BNodeOfId(id) == CHOOSE b \in AllBNodes : Str(b) = id

(***************************************************************************)
(* detects_constructed_class_to_ignore: the set of its possible outcomes   *)
(* [result, owl_nets_dict] on ledger d.  list(...)[0] of a set or of the   *)
(* dictionary's keys is any member.                                        *)
(***************************************************************************)
DetectorBranch(node_info) ==
    LET dict == node_info.class_edge_dict
    IN IF node_info.cardinality # {} THEN "cardinality"
       ELSE IF \E b \in DOMAIN dict : "complementOf" \in Keys(dict[b]) THEN "complementOf"
       ELSE IF \E b \in DOMAIN dict :
                  \E i \in dict[b] : Has("lacks_part", i[1]) \/ Has("lacks_part", i[2])
            THEN "negation"
       ELSE "none"

detects_constructed_class_to_ignore(node_info, node, g, d) ==
    LET dict == node_info.class_edge_dict
        branch == DetectorBranch(node_info)
    IN CASE branch = "cardinality" ->
              {[result |-> FALSE,
                owl_nets_dict |->
                    [d EXCEPT !.cardinality =
                        Put(@, Str(node),
                            {StrTriple(x) : x \in triples(g, BNodeOfId(marker[2]), None, None)})]] :
                 marker \in node_info.cardinality}
         [] branch = "complementOf" ->
              {[result |-> TRUE,
                owl_nets_dict |->
                    [d EXCEPT !.complementOf =
                        Put(@, Str(node), {StrTriple(x) : x \in triples(g, k, None, None)})]] :
                 k \in DOMAIN dict}
         [] branch = "negation" ->
              {[result |-> TRUE,
                owl_nets_dict |->
                    [d EXCEPT !.negation =
                        Put(@, Str(node),
                            {{StrTriple(x) : x \in triples(g, k, None, None)} :
                                k \in {b \in DOMAIN dict : "onProperty" \in Keys(dict[b])}})]]}
         [] OTHER -> {[result |-> FALSE, owl_nets_dict |-> d]}

(***************************************************************************)
(* The decoders.  Each returns [cleaned_classes, edges, status]: status is *)
(* "ok", the name of the exception the call raises, or "diverges" when its *)
(* while loop meets a frame a second time (the next frame is a function of *)
(* the current one, so the loop then never ends).                          *)
(***************************************************************************)
Result(cleaned, edges, status) ==
    [cleaned_classes |-> cleaned, edges |-> edges, status |-> status]

returns_object_property(sub, obj, prop) ==
    IF (Has("PATO", sub) /\ Has("PATO", obj)) /\ prop = None THEN RDFS_subClassOf
    ELSE IF (~Has("PATO", sub) /\ ~Has("PATO", obj)) /\ prop = None THEN RDFS_subClassOf
    ELSE IF ~Has("PATO", sub) /\ Has("PATO", obj) THEN obo_RO_0000086
    ELSE prop

parses_anonymous_axioms(edges, class_dict) ==
    IF "first" \notin Keys(edges) THEN Result({}, {}, "KeyError")
    ELSE LET first == Get(edges, "first")
         IN IF ~IsLiteral(first) /\ "rest" \notin Keys(edges) THEN Result({}, {}, "KeyError")
            ELSE IF IsLiteral(first) THEN Result({}, {}, "KeyError")   \* class_dict[first]
            ELSE LET rest == Get(edges, "rest")
                 IN IF IsURIRef(first) /\ IsBNode(rest)
                    THEN IF rest \in DOMAIN class_dict
                         THEN Result({}, class_dict[rest], "ok")
                         ELSE Result({}, {}, "KeyError")
                    ELSE IF IsURIRef(first)
                    THEN Result({}, {}, "KeyError")     \* class_dict[first], first a URIRef
                    ELSE IF IsBNode(first) /\ IsURIRef(rest)
                    THEN IF first \in DOMAIN class_dict
                         THEN Result({}, class_dict[first], "ok")
                         ELSE Result({}, {}, "KeyError")
                    ELSE IF first \in DOMAIN class_dict /\ rest \in DOMAIN class_dict
                         THEN Result({}, Merge(class_dict[first], class_dict[rest]), "ok")
                         ELSE Result({}, {}, "KeyError")

(* one pass of the while loop of lines 377-388 on a non-empty edge_batch:
   status "break" when line 388 leaves the loop *)
ConstructorStep(node, edge_batch, class_dict, relation) ==
    IF ("first" \in Keys(edge_batch) /\ "rest" \in Keys(edge_batch))
       /\ "type" \notin Keys(edge_batch)
    THEN LET first == Get(edge_batch, "first")
             rest == Get(edge_batch, "rest")
             emitted == {<<node, returns_object_property(node, first, relation), first>>}
         IN IF IsURIRef(first) /\ IsBNode(rest)
            THEN IF rest \in DOMAIN class_dict
                 THEN Result(emitted, class_dict[rest], "ok")
                 ELSE Result(emitted, {}, "KeyError")
            ELSE IF IsURIRef(first) /\ IsURIRef(rest)
            THEN Result(emitted, {}, "ok")
            ELSE parses_anonymous_axioms(edge_batch, class_dict)
    ELSE Result({}, edge_batch, "break")

(* the number of passes after which a while loop over frames has ended or
   has met a frame twice: a frame is an entry of class_dict or the merge of two *)
MaxPasses(class_dict) ==
    LET n == Cardinality(DOMAIN class_dict) IN n * n + n + 1

(* the while loop of lines 377-388, from edge_batch *)
ConstructorLoop(node, edge_batch, class_dict, relation) ==
    LET start == [cleaned_classes |-> {}, edges |-> edge_batch, status |-> "run",
                  visited |-> {}]
        after[k \in 0..MaxPasses(class_dict)] ==
            IF k = 0 THEN start
            ELSE LET s == after[k - 1]
                 IN IF s.status # "run" THEN s
                    ELSE IF s.edges = {} THEN [s EXCEPT !.status = "ok"]
                    ELSE IF s.edges \in s.visited THEN [s EXCEPT !.status = "diverges"]
                    ELSE LET r == ConstructorStep(node, s.edges, class_dict, relation)
                         IN IF r.status = "break" THEN [s EXCEPT !.status = "ok"]
                            ELSE IF r.status # "ok"
                            THEN [s EXCEPT !.status = r.status, !.edges = {}]
                            ELSE [cleaned_classes |-> s.cleaned_classes \cup r.cleaned_classes,
                                  edges |-> r.edges, status |-> "run",
                                  visited |-> s.visited \cup {s.edges}]
        end == after[MaxPasses(class_dict)]
    IN Result(end.cleaned_classes, end.edges, end.status)

parses_constructors(node, edges, class_dict, relation) ==
    LET head == Get(edges, IF "unionOf" \in Keys(edges) THEN "unionOf" ELSE "intersectionOf")
    IN IF head \notin DOMAIN class_dict THEN Result({}, {}, "KeyError")
       ELSE ConstructorLoop(node, class_dict[head], class_dict, relation)

prop_types == {"allValuesFrom", "someValuesFrom", "hasSelf", "hasValue", "onClass"}
restriction_components == {"type", "first", "rest", "onProperty"}

(* the input families give a frame at most one key of prop_types, so that [0]
   of line 422 does not depend on the dictionary's order *)
parses_restrictions(node, edges, class_dict) ==
    LET found == {x \in Keys(edges) : x \notin restriction_components /\ x \in prop_types}
    IN IF found = {} THEN Result({}, {}, "IndexError")
       ELSE
       LET object_type == CHOOSE x \in found : TRUE
           edge_batch == edges
           filler == Get(edge_batch, object_type)
       IN IF IsURIRef(filler) \/ IsLiteral(filler)
          THEN LET object_node == IF object_type = "hasSelf" THEN node ELSE filler
               IN IF "onProperty" \notin Keys(edge_batch) THEN Result({}, {}, "KeyError")
                  ELSE LET cleaned_classes ==
                               {<<node, Get(edge_batch, "onProperty"), object_node>>}
                       IN IF Cardinality(edge_batch) = 3
                          THEN Result(cleaned_classes, {}, "ok")
                          ELSE LET r == parses_anonymous_axioms(edge_batch, class_dict)
                               IN Result(cleaned_classes, r.edges, r.status)
          ELSE IF filler \notin DOMAIN class_dict THEN Result({}, {}, "KeyError")
          ELSE LET axioms == class_dict[filler]
               IN IF "unionOf" \in Keys(axioms) \/ "intersectionOf" \in Keys(axioms)
                  THEN IF "onProperty" \notin Keys(edge_batch) THEN Result({}, {}, "KeyError")
                       ELSE parses_constructors(node, axioms, class_dict,
                                                Get(edge_batch, "onProperty"))
                  ELSE Result({}, axioms, "ok")

(***************************************************************************)
(* cleans_owl_encoded_classes.                                             *)
(***************************************************************************)
(* one pass of the while loop of lines 471-487 on a non-empty `edges`: the
   decoder's result, or status "misc" for the branch of lines 484-487 *)
ElementDispatch(node, edges, class_dict) ==
    IF "unionOf" \in Keys(edges) \/ "intersectionOf" \in Keys(edges)
    THEN parses_constructors(node, edges, class_dict, None)
    ELSE IF "type" \notin Keys(edges) THEN Result({}, {}, "KeyError")
    ELSE IF Has("Restriction", Get(edges, "type"))
    THEN parses_restrictions(node, edges, class_dict)
    ELSE Result({}, {}, "misc")

(* the pass as [cleaned_classes, edges, misc, status], misc the values line 486
   writes *)
ElementPass(edges, results) ==
    IF results.status = "misc"
    THEN [cleaned_classes |-> {}, edges |-> {},
          misc |-> {Keys(edges) \ {"type", "first", "rest", "onProperty"}},
          status |-> "ok"]
    ELSE [cleaned_classes |-> results.cleaned_classes, edges |-> results.edges,
          misc |-> {}, status |-> results.status]

ElementStep(node, edges, class_dict) ==
    ElementPass(edges, ElementDispatch(node, edges, class_dict))

(* the while loop of lines 471-487 for one element of semantic_chunk;
   ElementAfter continues it after a pass with result r *)
RECURSIVE ElementLoop(_, _, _, _, _)
RECURSIVE ElementAfter(_, _, _, _, _, _)
ElementLoop(node, edges, class_dict, cleaned_classes, visited) ==
    IF edges = {} THEN [cleaned_classes |-> cleaned_classes, misc |-> {}, status |-> "ok"]
    ELSE IF edges \in visited
    THEN [cleaned_classes |-> cleaned_classes, misc |-> {}, status |-> "diverges"]
    ELSE ElementAfter(node, edges, class_dict, cleaned_classes, visited,
                      ElementStep(node, edges, class_dict))

ElementAfter(node, edges, class_dict, cleaned_classes, visited, r) ==
    IF r.status # "ok" \/ r.misc # {}
    THEN [cleaned_classes |-> cleaned_classes \cup r.cleaned_classes,
          misc |-> r.misc, status |-> r.status]
    ELSE ElementLoop(node, r.edges, class_dict,
                     cleaned_classes \cup r.cleaned_classes, visited \cup {edges})

(* the for loop of lines 469-487 over semantic_chunk in the order q, on ledger
   d; ChunkAfter continues it after the element Head(q) with result r *)
RECURSIVE DecodeChunk(_, _, _, _, _)
RECURSIVE ChunkAfter(_, _, _, _, _)
DecodeChunk(node, q, class_dict, cleaned_classes, d) ==
    IF q = <<>>
    THEN [cleaned_classes |-> cleaned_classes, owl_nets_dict |-> d, status |-> "ok"]
    ELSE IF Head(q) \notin DOMAIN class_dict       \* node_info[0][element], line 470
    THEN [cleaned_classes |-> cleaned_classes, owl_nets_dict |-> d, status |-> "KeyError"]
    ELSE ChunkAfter(node, q, class_dict, d,
                    ElementLoop(node, class_dict[Head(q)], class_dict, cleaned_classes, {}))

ChunkAfter(node, q, class_dict, d, r) ==
    IF r.status # "ok"
    THEN [cleaned_classes |-> r.cleaned_classes, owl_nets_dict |-> d, status |-> r.status]
    ELSE DecodeChunk(node, Tail(q), class_dict, r.cleaned_classes,
                     IF r.misc = {} THEN d ELSE [d EXCEPT !.misc = Put(@, Str(node), r.misc)])

(* lines 463-465: whether the driver decodes a class with edge dictionary
   class_edge_dict for which the detector returned `detected` *)
DriverDecodes(class_edge_dict, detected) ==
    IF DOMAIN class_edge_dict = {} THEN FALSE
    ELSE IF detected = FALSE THEN FALSE
    ELSE TRUE

(* lines 488-491 after the for loop ended with result r, or the exception
   that leaves run_owl_nets *)
EmitsDecodedClass(node, r) ==
    /\ cleaned_nodes' = cleaned_nodes \cup {node}
    /\ IF r.status # "ok"
       THEN /\ pc' = r.status
            /\ owl_nets_dict' = r.owl_nets_dict
            /\ UNCHANGED decoded_graph
       ELSE IF \E x \in r.cleaned_classes : x[2] = None
       THEN \* Graph.add asserts that the predicate is a term
            /\ pc' = "AssertionError"
            /\ owl_nets_dict' = r.owl_nets_dict
            /\ UNCHANGED decoded_graph
       ELSE /\ decoded_graph' = decoded_graph \cup r.cleaned_classes
            /\ owl_nets_dict' =
                  [r.owl_nets_dict EXCEPT !.decoded_classes =
                      Put(@, Str(node), {StrTriple(x) : x \in r.cleaned_classes})]
            /\ UNCHANGED pc

(* lines 462-491 for the class `node` with edge dictionary and markers node_info *)
DecodesClass(node, node_info) ==
    IF DOMAIN node_info.class_edge_dict = {}
    THEN UNCHANGED <<owl_nets_dict, decoded_graph, cleaned_nodes, pc>>
    ELSE \E det \in detects_constructed_class_to_ignore(node_info, node, graph, owl_nets_dict) :
           IF ~DriverDecodes(node_info.class_edge_dict, det.result)
           THEN /\ owl_nets_dict' = det.owl_nets_dict
                /\ UNCHANGED <<decoded_graph, cleaned_nodes, pc>>
           ELSE \E q \in Orderings({x[2] : x \in {e \in out_edges(nx_mdg, node) :
                                                     IsBNode(e[2])}}) :
                  EmitsDecodedClass(node, DecodeChunk(node, q, node_info.class_edge_dict, {},
                                                      det.owl_nets_dict))

(* one pass of the while loop of lines 459-491 *)
cleans_owl_encoded_classes_step ==
    /\ pc = "decode_loop"
    /\ \E node \in class_list :
         /\ class_list' = class_list \ {node}
         /\ DecodesClass(node, creates_edge_dictionary(nx_mdg, node))
    /\ UNCHANGED <<graph, nx_mdg, kg_construct_approach, disjoint_elements, pkts,
                   remove_edges, filtered_graph, owl_nets_graph>>
    /\ UNCHANGED method_vars

(* line 500 and the assignment of line 566 *)
cleans_owl_encoded_classes_end ==
    /\ pc = "decode_loop"
    /\ class_list = {}
    /\ graph' = decoded_graph
    /\ pc' = "filter_decoded"
    /\ UNCHANGED <<nx_mdg, class_list, kg_construct_approach, owl_nets_dict,
                   disjoint_elements, pkts, remove_edges, filtered_graph, decoded_graph,
                   cleaned_nodes, owl_nets_graph>>
    /\ UNCHANGED method_vars

(* line 567 *)
filters_decoded_graph ==
    /\ pc = "filter_decoded"
    /\ \E first \in FirstChoices(graph) :
         LET r == removes_edges_with_owl_semantics(graph, first)
         IN /\ owl_nets_graph' = filtered_graph \cup r.filtered_graph
            /\ owl_nets_dict' =
                  [owl_nets_dict EXCEPT !.filtered_triples = @ \cup r.filtered_triples]
    /\ pc' = "non_obo"
    /\ UNCHANGED <<graph, nx_mdg, class_list, kg_construct_approach, disjoint_elements,
                   pkts, remove_edges, filtered_graph, decoded_graph, cleaned_nodes>>
    /\ UNCHANGED method_vars

(* line 568: the sweep of lines 521-522 is what the method does to
   owl_nets_graph *)
removes_non_obo_namespace_triples ==
    /\ pc = "non_obo"
    /\ owl_nets_graph' = {x \in owl_nets_graph : ~(Has("owl#", x[1]) \/ Has("owl#", x[3]))}
    /\ pc' = "purify"
    /\ UNCHANGED <<graph, nx_mdg, class_list, kg_construct_approach, owl_nets_dict,
                   disjoint_elements, pkts, remove_edges, filtered_graph, decoded_graph,
                   cleaned_nodes>>
    /\ UNCHANGED method_vars

(* line 569, and the return of line 591 *)
purifies_graph_build ==
    /\ pc = "purify"
    /\ pc' = "done"
    /\ UNCHANGED <<graph, nx_mdg, class_list, kg_construct_approach, owl_nets_dict,
                   disjoint_elements, pkts, remove_edges, filtered_graph, decoded_graph,
                   cleaned_nodes, owl_nets_graph>>
    /\ UNCHANGED method_vars

(***************************************************************************)
(* The inputs: the graphs OwlNets is constructed on.                       *)
(***************************************************************************)
PropertyTyping ==
    {<<"obo/RO_1", RDF_type, OWL_ObjectProperty>>,
     <<"obo/cl#lacks_part", RDF_type, OWL_ObjectProperty>>,
     <<"obo/RO_2", RDF_type, OWL_ObjectProperty>>,
     <<"obo/RO_2", RDF_type, OWL_AnnotationProperty>>,
     <<"obo/RO_3", RDF_type, OWL_ObjectProperty>>,
     <<"obo/RO_3", RDF_type, OWL_DatatypeProperty>>,
     <<"obo/RO_4", RDF_type, OWL_DatatypeProperty>>,
     <<"obo/IAO_1", RDF_type, OWL_AnnotationProperty>>}

ClassTyping(classes) == {<<c, RDF_type, OWL_Class>> : c \in classes}

(* the cells of an rdf list of `members`, at BNode(base + 1) ... *)
ListCells(base, members) ==
    UNION {{<<BNode(base + j), RDF_first, members[j]>>,
            <<BNode(base + j), RDF_rest,
              IF j < Len(members) THEN BNode(base + j + 1) ELSE RDF_nil>>} :
              j \in 1..Len(members)}

Constructor(c, base, kind, members) ==
    {<<c, OWL_equivalentClass, BNode(base)>>, <<BNode(base), RDF_type, OWL_Class>>,
     <<BNode(base), kind, BNode(base + 1)>>} \cup ListCells(base, members)

Restriction(c, base, P, filler) ==
    {<<c, RDFS_subClassOf, BNode(base)>>, <<BNode(base), RDF_type, OWL_Restriction>>,
     <<BNode(base), OWL_onProperty, P>>, <<BNode(base), OWL_someValuesFrom, filler>>}

RestrictionOverUnion(c, base, P, members) ==
    Restriction(c, base, P, BNode(base + 1))
    \cup {<<BNode(base + 1), RDF_type, OWL_Class>>,
          <<BNode(base + 1), OWL_unionOf, BNode(base + 2)>>}
    \cup ListCells(base + 1, members)

GenusDifferentia(c, base, P, filler) ==
    {<<c, OWL_equivalentClass, BNode(base)>>, <<BNode(base), RDF_type, OWL_Class>>,
     <<BNode(base), OWL_intersectionOf, BNode(base + 1)>>,
     <<BNode(base + 1), RDF_first, "obo/GO_2">>,
     <<BNode(base + 1), RDF_rest, BNode(base + 2)>>,
     <<BNode(base + 2), RDF_first, BNode(base + 3)>>,
     <<BNode(base + 2), RDF_rest, RDF_nil>>,
     <<BNode(base + 3), RDF_type, OWL_Restriction>>,
     <<BNode(base + 3), OWL_onProperty, P>>,
     <<BNode(base + 3), OWL_someValuesFrom, filler>>}

Complement(c, base, D) ==
    {<<c, OWL_equivalentClass, BNode(base)>>, <<BNode(base), RDF_type, OWL_Class>>,
     <<BNode(base), OWL_complementOf, D>>}

CardinalityRestriction(c, base) ==
    {<<c, RDFS_subClassOf, BNode(base)>>, <<BNode(base), RDF_type, OWL_Restriction>>,
     <<BNode(base), OWL_onProperty, "obo/RO_1">>,
     <<BNode(base), OWL_minCardinality, "\"1\"">>}

Enumeration(c, base, typed) ==
    {<<c, RDFS_subClassOf, BNode(base)>>, <<BNode(base), OWL_oneOf, "obo/GO_2">>}
    \cup (IF typed THEN {<<BNode(base), RDF_type, OWL_Class>>} ELSE {})

AnonymousSuperclass(c, base) ==
    {<<c, RDFS_subClassOf, BNode(base)>>, <<BNode(base), RDF_type, OWL_Class>>,
     <<BNode(base), "obo/RO_1", "obo/GO_2">>}

CyclicList(c, base) ==
    {<<c, OWL_equivalentClass, BNode(base)>>, <<BNode(base), RDF_type, OWL_Class>>,
     <<BNode(base), OWL_unionOf, BNode(base + 1)>>,
     <<BNode(base + 1), RDF_first, "obo/GO_2">>,
     <<BNode(base + 1), RDF_rest, BNode(base + 1)>>}

DanglingList(c, base) ==
    {<<c, OWL_equivalentClass, BNode(base)>>, <<BNode(base), RDF_type, OWL_Class>>,
     <<BNode(base), OWL_unionOf, BNode(base + 1)>>}

Members == {"obo/GO_2", "obo/PATO_1"}
MemberLists == UNION {[1..n -> Members] : n \in 1..MaxListLen}
Relations == {"obo/RO_1", "obo/cl#lacks_part"}

(* the OWL encodings of one axiom of class c, on the anonymous nodes from BNode(base) *)
Axioms(c, base) ==
    {Restriction(c, base, P, D) : P \in Relations, D \in Members}
    \cup {Constructor(c, base, kind, m) :
             kind \in {OWL_unionOf, OWL_intersectionOf}, m \in MemberLists}
    \cup {RestrictionOverUnion(c, base, P, [j \in 1..MaxListLen |-> "obo/GO_2"]) :
             P \in Relations}
    \cup {GenusDifferentia(c, base, P, "obo/PATO_1") : P \in Relations}
    \cup {Complement(c, base, "obo/GO_2"), CardinalityRestriction(c, base),
          Enumeration(c, base, TRUE), Enumeration(c, base, FALSE),
          AnonymousSuperclass(c, base), CyclicList(c, base), DanglingList(c, base)}

(* a second axiom of the same class *)
SecondAxioms(c, base) ==
    {{}, Complement(c, base, "obo/GO_2"), CardinalityRestriction(c, base),
     Enumeration(c, base, TRUE), AnonymousSuperclass(c, base),
     Restriction(c, base, "obo/RO_1", "obo/GO_2"),
     Restriction(c, base, "obo/cl#lacks_part", "obo/GO_2"),
     Constructor(c, base, OWL_unionOf, <<"obo/GO_2">>)}

SlotSize == MaxListLen + 2

(* ontologies: one class with up to two encoded axioms, a second class with
   or without an encoded restriction, and with or without plain edges between
   named classes *)
EncodedClasses(c) ==
    {a1 \cup a2 : a1 \in Axioms(c, 1), a2 \in SecondAxioms(c, SlotSize + 1)}

NamedEdges ==
    {<<"obo/GO_1", RDFS_subClassOf, "obo/GO_2">>, <<"obo/PATO_2", "obo/RO_1", "obo/GO_2">>}

Ontologies ==
    {ClassTyping({"obo/GO_1", "obo/GO_2", "obo/PATO_1", "obo/PATO_2"})
     \cup PropertyTyping \cup a12 \cup a3 \cup named :
        a12 \in EncodedClasses("obo/GO_1") \cup EncodedClasses("obo/PATO_2"),
        a3 \in {{}, Restriction("obo/PATO_1", 2 * SlotSize + 1, "obo/cl#lacks_part", "obo/GO_2")},
        named \in {{}, NamedEdges}}

(* instance-based knowledge graphs: private instances of classes and up to
   MaxEdges plain edges *)
InstanceTyping ==
    {<<"pkt/i1", RDF_type, OWL_NamedIndividual>>, <<"pkt/i1", RDF_type, "obo/GO_1">>,
     <<"pkt/i2", RDF_type, OWL_NamedIndividual>>, <<"pkt/i2", RDF_type, "obo/GO_2">>}

PlainEdges ==
    {<<"pkt/i1", "obo/RO_1", "obo/GO_2">>, <<"obo/GO_2", "obo/RO_1", "pkt/i1">>,
     <<"pkt/i1", "obo/RO_1", "pkt/i2">>, <<"pkt/i2", "obo/RO_1", "pkt/i2">>,
     <<"pkt/i1", "ex/note", "obo/GO_2">>,
     <<"pkt/i3", RDF_type, OWL_NamedIndividual>>,
     <<"obo/GO_1", "obo/RO_1", "obo/GO_2">>, <<"obo/GO_1", "obo/RO_2", "obo/GO_2">>,
     <<"obo/GO_1", "obo/RO_3", "obo/GO_2">>, <<"obo/GO_1", "obo/RO_4", "obo/GO_2">>,
     <<"obo/GO_1", "obo/IAO_1", "obo/GO_2">>,
     <<"obo/GO_1", RDFS_subClassOf, "obo/GO_2">>,
     <<"obo/GO_1", RDFS_subClassOf, "obo/GO_3">>,
     <<"obo/GO_1", RDFS_subClassOf, "obo/go#subset">>,
     <<BNode(3 * SlotSize + 1), OWL_annotatedProperty, OWL_disjointWith>>,
     <<BNode(3 * SlotSize + 1), OWL_annotatedTarget, OWL_disjointWith>>}

(* the subsets of S of at most k members *)
RECURSIVE SubsetsUpTo(_, _)
SubsetsUpTo(S, k) ==
    IF k = 0 THEN {{}}
    ELSE LET smaller == SubsetsUpTo(S, k - 1)
         IN smaller \cup {x \cup {e} : x \in smaller, e \in S}

KnowledgeGraphs ==
    {ClassTyping({"obo/GO_1", "obo/GO_2", "obo/go#subset"}) \cup PropertyTyping
     \cup InstanceTyping \cup e : e \in SubsetsUpTo(PlainEdges, MaxEdges)}

(***************************************************************************)
(* __init__ (lines 53-73), and run_owl_nets.                               *)
(***************************************************************************)
Init ==
    /\ \/ /\ graph \in Ontologies
          /\ kg_construct_approach = None
       \/ /\ graph \in KnowledgeGraphs
          /\ kg_construct_approach = "instance"
    /\ nx_mdg = {}
    /\ class_list = gets_ontology_classes(graph)
    /\ owl_nets_dict = EmptyLedger
    /\ disjoint_elements = {}
    /\ pkts = {}
    /\ remove_edges = {}
    /\ filtered_graph = {}
    /\ decoded_graph = {}
    /\ cleaned_nodes = {}
    /\ owl_nets_graph = {}
    /\ pc = "start"
    /\ call_seen_nodes = <<>>
    /\ call_axioms = {}
    /\ filtered_once = {}
    /\ filtered_twice = {}

Next ==
    \/ removes_disjoint_with_axioms_begin
    \/ removes_disjoint_with_axioms_step
    \/ converts_rdflib_to_networkx_multidigraph
    \/ updates_class_instance_identifiers_begin
    \/ updates_class_instance_identifiers_step
    \/ updates_class_instance_identifiers_end
    \/ filters_original_graph
    \/ cleans_owl_encoded_classes_step
    \/ cleans_owl_encoded_classes_end
    \/ filters_decoded_graph
    \/ removes_non_obo_namespace_triples
    \/ purifies_graph_build

Spec == Init /\ [][Next]_vars

(***************************************************************************)
(* recurses_axioms on its own, one call per step (the method is tail       *)
(* recursive: line 210 returns what the next call returns).  The inputs    *)
(* are the graphs of up to MaxExpanderEdges edges on NumExpanderNodes       *)
(* anonymous nodes, cycles and self-loops among them, each node with one   *)
(* edge to a named class as well; the first call is the one of line 244,   *)
(* on the out-edges of an anonymous node.                                  *)
(***************************************************************************)
ExpanderNodes == {BNode(i) : i \in 1..NumExpanderNodes}

ExpanderGraphs ==
    {{<<link[1], link[2], RDF_rest>> : link \in links}
     \cup {<<b, "obo/GO_2", RDF_first>> : b \in ExpanderNodes} :
        links \in SubsetsUpTo(ExpanderNodes \X ExpanderNodes, MaxExpanderEdges)}

ExpanderInit ==
    /\ nx_mdg \in ExpanderGraphs
    /\ graph = {<<e[1], e[3], e[2]>> : e \in nx_mdg}
    /\ \E axiom \in ExpanderNodes : call_axioms = out_edges(nx_mdg, axiom)
    /\ call_seen_nodes = <<>>
    /\ pc = "recurses_axioms"
    /\ class_list = {}
    /\ kg_construct_approach = None
    /\ owl_nets_dict = EmptyLedger
    /\ disjoint_elements = {}
    /\ pkts = {}
    /\ remove_edges = {}
    /\ filtered_graph = {}
    /\ decoded_graph = {}
    /\ cleaned_nodes = {}
    /\ owl_nets_graph = {}
    /\ filtered_once = {}
    /\ filtered_twice = {}

(* lines 200-210: a call that tracks new nodes and recurses *)
recurses_axioms_call ==
    /\ pc = "recurses_axioms"
    /\ TrackedNodes(call_seen_nodes, call_axioms) # {}
    /\ \E q \in Orderings(TrackedNodes(call_seen_nodes, call_axioms)) :
         call_seen_nodes' = call_seen_nodes \o q
    /\ call_axioms' = SearchAxioms(nx_mdg, TrackedNodes(call_seen_nodes, call_axioms))
    /\ UNCHANGED <<graph, nx_mdg, owl_nets_dict, filtered_graph, pc, filtered_once,
                   filtered_twice>>
    /\ UNCHANGED run_vars

(* lines 200-207 and 211-212: a call that tracks nothing new and returns *)
recurses_axioms_return ==
    /\ pc = "recurses_axioms"
    /\ TrackedNodes(call_seen_nodes, call_axioms) = {}
    /\ pc' = "returned"
    /\ UNCHANGED <<graph, nx_mdg, owl_nets_dict, filtered_graph, call_seen_nodes,
                   call_axioms, filtered_once, filtered_twice>>
    /\ UNCHANGED run_vars

ExpanderNext ==
    \/ recurses_axioms_call
    \/ recurses_axioms_return

(* a call of the method runs to its return or to its next call *)
SpecExpander == ExpanderInit /\ [][ExpanderNext]_vars /\ WF_vars(ExpanderNext)

(***************************************************************************)
(* removes_edges_with_owl_semantics on its own: run on a graph, and run    *)
(* again on the graph it returned (self.graph set to that graph).          *)
(***************************************************************************)
FilterInit ==
    /\ graph \in Ontologies \cup KnowledgeGraphs
    /\ pc = "filter_once"
    /\ nx_mdg = {}
    /\ class_list = gets_ontology_classes(graph)
    /\ kg_construct_approach = None
    /\ owl_nets_dict = EmptyLedger
    /\ disjoint_elements = {}
    /\ pkts = {}
    /\ remove_edges = {}
    /\ filtered_graph = {}
    /\ decoded_graph = {}
    /\ cleaned_nodes = {}
    /\ owl_nets_graph = {}
    /\ call_seen_nodes = <<>>
    /\ call_axioms = {}
    /\ filtered_once = {}
    /\ filtered_twice = {}

filters_once ==
    /\ pc = "filter_once"
    /\ \E first \in FirstChoices(graph) :
         LET r == removes_edges_with_owl_semantics(graph, first)
         IN /\ filtered_once' = r.filtered_graph
            /\ owl_nets_dict' =
                  [owl_nets_dict EXCEPT !.filtered_triples = @ \cup r.filtered_triples]
    /\ pc' = "filter_twice"
    /\ UNCHANGED <<graph, nx_mdg, filtered_graph, call_seen_nodes, call_axioms,
                   filtered_twice>>
    /\ UNCHANGED run_vars

filters_twice ==
    /\ pc = "filter_twice"
    /\ graph' = filtered_once
    /\ \E first \in FirstChoices(filtered_once) :
         LET r == removes_edges_with_owl_semantics(filtered_once, first)
         IN /\ filtered_twice' = r.filtered_graph
            /\ owl_nets_dict' =
                  [owl_nets_dict EXCEPT !.filtered_triples = @ \cup r.filtered_triples]
    /\ pc' = "filtered_twice"
    /\ UNCHANGED <<nx_mdg, filtered_graph, call_seen_nodes, call_axioms, filtered_once>>
    /\ UNCHANGED run_vars

FilterNext ==
    \/ filters_once
    \/ filters_twice

SpecFilter == FilterInit /\ [][FilterNext]_vars

(***************************************************************************)
(* The claims.                                                             *)
(***************************************************************************)
(* the triple store the adjacency index was built from (line 563) *)
IndexedGraph == {<<e[1], e[3], e[2]>> : e \in nx_mdg}

(* the decode driver has emptied its worklist (line 459 ends the loop) *)
WorklistEmptied == pc = "decode_loop" /\ class_list = {}

(* C1: no triple of the output graph of run_owl_nets (owl_nets_graph, from
   line 567 to the return of line 591) has an anonymous node as its subject
   or as its object. *)
C1_NoAnonymousNodeInOutput ==
    \A t \in owl_nets_graph : ~IsBNode(t[1]) /\ ~IsBNode(t[3])

(* a finished run with a non-empty output, on a store where a named class is
   rdfs:subClassOf an anonymous node that is itself typed owl:Class *)
C1_Witness ==
    /\ pc = "done"
    /\ owl_nets_graph # {}
    /\ \E t \in IndexedGraph :
         /\ IsBNode(t[3])
         /\ t[2] = RDFS_subClassOf
         /\ EntityTypes(IndexedGraph, t[1]) # {}
         /\ EntityTypes(IndexedGraph, t[3]) # {}

(* C2: recurses_axioms, started on the out-edges of any anonymous node of any
   graph (cyclic ones included), returns, and its list never holds an
   anonymous node twice nor more entries than the graph has anonymous nodes. *)
C2_ExpanderTerminatesBounded ==
    /\ <>(pc = "returned")
    /\ [](/\ Len(call_seen_nodes) <=
                 Cardinality({x \in AllBNodes : \E t \in graph : x = t[1] \/ x = t[3]})
          /\ \A i, j \in 1..Len(call_seen_nodes) :
               call_seen_nodes[i] = call_seen_nodes[j] => i = j)

(* the method has returned every anonymous node of a graph in which two of
   them point at each other *)
C2_Witness ==
    /\ pc = "returned"
    /\ Len(call_seen_nodes) = NumExpanderNodes
    /\ \E a, b \in ExpanderNodes :
         a # b /\ <<a, b, RDF_rest>> \in nx_mdg /\ <<b, a, RDF_rest>> \in nx_mdg

(* C3: the filter run on the graph the filter returned keeps the same triples
   as the first run. *)
C3_FilterIdempotent ==
    pc = "filtered_twice" => filtered_twice = filtered_once

(* C4: when the worklist is empty, a class with a non-empty edge dictionary
   that the detector marked (cardinality, complementOf, negation) has an entry
   under that ledger key, and one the detector did not veto has an entry under
   decoded_classes. *)
C4_LedgerComplete ==
    WorklistEmptied =>
        \A node \in gets_ontology_classes(graph) :
            LET node_info == creates_edge_dictionary(nx_mdg, node)
                branch == DetectorBranch(node_info)
            IN DOMAIN node_info.class_edge_dict # {} =>
                 /\ branch = "cardinality" => Str(node) \in DOMAIN owl_nets_dict.cardinality
                 /\ branch = "complementOf" => Str(node) \in DOMAIN owl_nets_dict.complementOf
                 /\ branch = "negation" => Str(node) \in DOMAIN owl_nets_dict.negation
                 /\ branch = "none" => Str(node) \in DOMAIN owl_nets_dict.decoded_classes

(* C5: a class C whose only anonymous out-edge is rdfs:subClassOf to the
   restriction {onProperty P, someValuesFrom D}, D named, has exactly the
   triple (C, P, D) in the decoded graph. *)
C5_RestrictionDecoded ==
    WorklistEmptied =>
        \A C \in gets_ontology_classes(graph), P \in Relations, D \in Members :
            {t \in graph : IsBNode(t[1]) \/ IsBNode(t[3])} = Restriction(C, 1, P, D) =>
                {t \in decoded_graph : t[1] = C} = {<<C, P, D>>}

(* C6: a class C that is owl:equivalentClass to a unionOf or intersectionOf
   list of named members has exactly one decoded triple (C, r, m) per member
   m: r is rdfs:subClassOf when C and m are both PATO terms or both not, and
   RO_0000086 when only m is one. *)
C6_ConstructorDecoded ==
    WorklistEmptied =>
        \A C \in gets_ontology_classes(graph), kind \in {OWL_unionOf, OWL_intersectionOf},
           members \in MemberLists :
            (/\ {t \in graph : IsBNode(t[1]) \/ IsBNode(t[3])} = Constructor(C, 1, kind, members)
             /\ \A i \in 1..Len(members) : Has("PATO", C) => Has("PATO", members[i]))
            =>
            {t \in decoded_graph : t[1] = C} =
                {<<C, IF Has("PATO", C) = Has("PATO", members[i])
                      THEN RDFS_subClassOf ELSE obo_RO_0000086, members[i]>> :
                    i \in 1..Len(members)}

(* C7: a class whose edge dictionary has a complementOf key, and no
   cardinality marker, has no decoded triple, has an entry under the ledger's
   complementOf key and has none under decoded_classes. *)
C7_ComplementSkipped ==
    WorklistEmptied =>
        \A node \in gets_ontology_classes(graph) :
            LET node_info == creates_edge_dictionary(nx_mdg, node)
            IN (/\ node_info.cardinality = {}
                /\ \E b \in DOMAIN node_info.class_edge_dict :
                     "complementOf" \in Keys(node_info.class_edge_dict[b]))
               =>
               /\ {t \in decoded_graph : t[1] = node} = {}
               /\ Str(node) \in DOMAIN owl_nets_dict.complementOf
               /\ Str(node) \notin DOMAIN owl_nets_dict.decoded_classes

(* C8: after updates_class_instance_identifiers, for every private instance i
   of class C, each edge (i, P, X) to a class X is present as (C, P, X), each
   edge (X, P, i) as (X, P, C), and no triple has i as subject or object. *)
C8_InstancesRemapped ==
    (kg_construct_approach = "instance" /\ pc = "filter") =>
        \A i \in {t[1] : t \in {u \in triples(IndexedGraph, None, RDF_type, OWL_NamedIndividual) :
                                    Has("pkt", u[1])}} :
            /\ \A t \in IndexedGraph, c \in triples(IndexedGraph, i, RDF_type, None) :
                 (Has("obo", c[3]) /\ t[2] # RDF_type) =>
                     /\ (t[1] = i /\ ~Has("pkt", t[3])) => <<c[3], t[2], t[3]>> \in graph
                     /\ (t[3] = i /\ ~Has("pkt", t[1])) => <<t[1], t[2], c[3]>> \in graph
            /\ \A t \in graph : t[1] # i /\ t[3] # i

(* C9: after one run of the filter on a triple store, every triple of the
   store is in the returned graph or recorded in the ledger's
   filtered_triples. *)
C9_NoTripleDroppedUnrecorded ==
    pc = "filter_twice" =>
        \A t \in graph :
            t \in filtered_once \/ StrTriple(t) \in owl_nets_dict.filtered_triples

(* C10: the final graph is the union of the filter's result on the store
   before decoding and its result on the decoded graph, so that it holds
   every decoded triple whose subject and object the ontology types as
   classes or individuals and whose predicate is rdfs:subClassOf or typed
   owl:ObjectProperty. *)
C10_DecodedTriplesInOutput ==
    pc = "done" =>
        \A t \in decoded_graph :
            (/\ EntityTypes(IndexedGraph, t[1]) # {}
             /\ EntityTypes(IndexedGraph, t[3]) # {}
             /\ \/ t[2] = RDFS_subClassOf
                \/ PredicateTypes(IndexedGraph, t[2]) = {<<t[2], RDF_type, OWL_ObjectProperty>>})
            => t \in owl_nets_graph

(* the private instances (line 125) of the indexed store that have no
   rdf:type edge to a class of the obo namespace (the list of line 130 is
   empty for them) *)
UntypedInstances ==
    {i \in {t[1] : t \in {u \in triples(IndexedGraph, None, RDF_type, OWL_NamedIndividual) :
                             Has("pkt", u[1])}} :
        \A c \in triples(IndexedGraph, i, RDF_type, None) : ~Has("obo", c[3])}

(* C11: under the instance approach, a private instance without an rdf:type
   edge to a named class does not make updates_class_instance_identifiers
   fail: the loop never leaves run_owl_nets with an exception, and when the
   method has returned the triples of that instance are still in the store. *)
C11_UntypedInstanceTolerated ==
    (kg_construct_approach = "instance" /\ UntypedInstances # {}) =>
        /\ pc # "IndexError"
        /\ pc = "filter" =>
             \A i \in UntypedInstances : triples(IndexedGraph, i, None, None) \subseteq graph

(* C12: every triple the filter returns has a subject and an object that the
   store types as owl:Class or owl:NamedIndividual and that hold no '#', and
   a predicate that is rdfs:subClassOf or rdf:type, or that the store types
   as owl:ObjectProperty and does not type as owl:AnnotationProperty; so no
   returned triple has a predicate typed owl:AnnotationProperty unless that
   predicate is rdfs:subClassOf or rdf:type. *)
C12_FilterRetainsOnlyObjectProperties ==
    pc = "filter_twice" =>
        \A x \in filtered_once :
            /\ EntityTypes(graph, x[1]) # {}
            /\ EntityTypes(graph, x[3]) # {}
            /\ \/ x[2] \in {RDFS_subClassOf, RDF_type}
               \/ /\ <<x[2], RDF_type, OWL_ObjectProperty>> \in graph
                  /\ <<x[2], RDF_type, OWL_AnnotationProperty>> \notin graph

(* the test of line 282 on an edge dictionary *)
HasComplementFrame(dict) ==
    \E b \in DOMAIN dict : "complementOf" \in Keys(dict[b])

(* an edge dictionary with a frame whose onProperty value holds 'lacks_part'
   (one of the items the test of line 287 looks for) *)
HasNegationFrame(dict) ==
    \E b \in DOMAIN dict :
        \E i \in dict[b] : i[1] = "onProperty" /\ Has("lacks_part", i[2])

(* C13: for every class the driver is about to examine and every outcome of
   detects_constructed_class_to_ignore on it: with a complementOf key in any
   frame (cardinality markers or not) it returns True and the class is under
   the ledger's complementOf key; with an onProperty value holding lacks_part
   it returns True, and the class is under the negation key when no frame has
   a complementOf key; with cardinality markers and neither of these it
   returns False and the class is under the cardinality key; otherwise it
   returns False and leaves the ledger as it was. *)
C13_DetectorOutcomes ==
    pc = "decode_loop" =>
        \A node \in class_list :
            LET node_info == creates_edge_dictionary(nx_mdg, node)
                dict == node_info.class_edge_dict
            IN DOMAIN dict # {} =>
                 \A det \in detects_constructed_class_to_ignore(node_info, node, graph,
                                                                owl_nets_dict) :
                     /\ HasComplementFrame(dict) =>
                          /\ det.result = TRUE
                          /\ Str(node) \in DOMAIN det.owl_nets_dict.complementOf
                     /\ HasNegationFrame(dict) =>
                          /\ det.result = TRUE
                          /\ ~HasComplementFrame(dict) =>
                               Str(node) \in DOMAIN det.owl_nets_dict.negation
                     /\ (/\ node_info.cardinality # {}
                         /\ ~HasComplementFrame(dict)
                         /\ ~HasNegationFrame(dict)) =>
                          /\ det.result = FALSE
                          /\ Str(node) \in DOMAIN det.owl_nets_dict.cardinality
                     /\ (/\ node_info.cardinality = {}
                         /\ ~HasComplementFrame(dict)
                         /\ ~HasNegationFrame(dict)) =>
                          /\ det.result = FALSE
                          /\ det.owl_nets_dict = owl_nets_dict

(* C14: while the decode driver runs (from its first pass on, lines 459-491)
   the adjacency index nx_mdg holds exactly the edges (s, o, key p) of the
   triples (s, p, o) of the triple store, also when
   updates_class_instance_identifiers has changed the store. *)
C14_IndexMatchesStoreAtDecoding ==
    pc = "decode_loop" => nx_mdg = {<<t[1], t[3], t[2]>> : t \in graph}

(* C15: the decoding of a class by cleans_owl_encoded_classes always comes to
   an end, also on a unionOf or intersectionOf list whose first/rest chain is
   cyclic: no pass of the driver stays for ever in a while loop of
   parses_constructors, parses_restrictions or of lines 471-487 (a loop that
   meets a frame a second time never ends, which the model records as the
   position "diverges"). *)
C15_ClassDecodingTerminates ==
    pc # "diverges"

(* a frame that reaches the branch of lines 484-487 in the wording of the
   tests of lines 472-480: no unionOf key, no intersectionOf key and no type
   holding 'Restriction' (a frame without a type key included) *)
MiscShaped(edges) ==
    /\ "unionOf" \notin Keys(edges)
    /\ "intersectionOf" \notin Keys(edges)
    /\ "type" \in Keys(edges) => ~Has("Restriction", Get(edges, "type"))

(* semantic_chunk of line 468 *)
SemanticChunk(node) ==
    {x[2] : x \in {e \in out_edges(nx_mdg, node) : IsBNode(e[2])}}

(* C16: a class the driver has started to decode (lines 466-491) and all of
   whose directly attached frames have neither a unionOf or intersectionOf
   key nor a type holding 'Restriction' (frames without a type key included)
   is decoded without an exception: it is recorded under the ledger's misc
   key, and the driver reaches line 490 for it with no decoded triple. *)
C16_MiscFramesRecorded ==
    \A node \in cleaned_nodes :
        LET dict == creates_edge_dictionary(nx_mdg, node).class_edge_dict
        IN (/\ SemanticChunk(node) # {}
            /\ \A element \in SemanticChunk(node) :
                 element \in DOMAIN dict /\ MiscShaped(dict[element]))
           =>
           /\ Str(node) \in DOMAIN owl_nets_dict.misc
           /\ Str(node) \in DOMAIN owl_nets_dict.decoded_classes
           /\ owl_nets_dict.decoded_classes[Str(node)] = {}
           /\ {t \in decoded_graph : t[1] = node} = {}

(* the keys of the ledger whose entries are dictionaries from node
   identifiers to records (lines 62-65) *)
LedgerKeys ==
    {"decoded_classes", "complementOf", "cardinality", "negation", "misc", "disjointWith"}

(* C17: no step of run_owl_nets takes anything out of the ledger: a node
   identifier that has a record under a ledger key still has one after the
   step, that record still holds what it held, and filtered_triples loses no
   triple. *)
C17_LedgerOnlyGrows ==
    [][/\ \A key \in LedgerKeys :
             \A id \in DOMAIN owl_nets_dict[key] :
                 /\ id \in DOMAIN owl_nets_dict'[key]
                 /\ owl_nets_dict[key][id] \subseteq owl_nets_dict'[key][id]
       /\ owl_nets_dict.filtered_triples \subseteq owl_nets_dict'.filtered_triples]_vars

====
